---- MODULE Spec2Model ----
(***************************************************************************)
(* FastSeatingOptimizer::solve (src/cpp_solver/solver.cpp) as a state      *)
(* machine.  One behaviour is one call of solve: the inputs are fixed in   *)
(* Init, every later step is one stage of the function body, in program    *)
(* order.  The CP-SAT solver is an external collaborator: the Solve step   *)
(* returns any status/truth assignment that its contract allows for the    *)
(* model that was emitted.                                                 *)
(***************************************************************************)
EXTENDS Integers, Sequences, FiniteSets, TLC

VARIABLES
    students,           \* const std::vector<Student>&
    rooms,              \* const std::vector<Room>&
    restrictions,       \* const unordered_map<string, vector<string>>&
    max_sep,            \* value of MAX_SEPARATION_CONSTRAINTS in this run
    pc,                 \* position in the body of solve
    room_positions,     \* vector<vector<pair<int,int>>>
    total_capacity,     \* int
    exam_to_students,   \* unordered_map<string, vector<int>>
    exam_order,         \* iteration order of exam_to_students
    x,                  \* keys of unordered_map<string, BoolVar> x
    y,                  \* indices of vector<BoolVar> y
    variable_count,     \* int
    constraints,        \* assignment, capacity and linkage constraints added
    sep,                \* separation constraints added, in emission order
    separation_count,   \* int
    solver_called,      \* solver.Solve(...) has been invoked
    status,             \* response.status()
    solution,           \* variables that are true in the response
    assignments,        \* std::vector<Assignment> (the return value)
    log                 \* lines written to std::cout

vars == <<students, rooms, restrictions, max_sep, pc, room_positions,
          total_capacity, exam_to_students, exam_order, x, y, variable_count,
          constraints, sep, separation_count, solver_called, status, solution,
          assignments, log>>

----------------------------------------------------------------------------
(* Bounds of the explored inputs *)

MaxStudents == 2
MaxRooms == 2
MaxRows == 2
MaxCols == 2
\* ceiling used by SpecCap, small enough for the explored inputs to reach it
ScaledCap == 2

\* const int MAX_SEPARATION_CONSTRAINTS = 50000;
MAX_SEPARATION_CONSTRAINTS == 50000

\* SpecBuild: student lists long enough for two exams of two students each
BuildStudents == 4
\* SpecGrid: largest number of rows and of columns of the one room
GridMax == 5

Exams == {"a", "b"}

\* the exams that may have an entry in restrictions (solve treats exam names
\* alike, so restricting the other exam instead gives no further case)
RestrictedExams == {"a"}

RoomIdOf(k) == "R" \o ToString(k)

AllRoomIds == {RoomIdOf(k) : k \in 1..MaxRooms}

----------------------------------------------------------------------------
(* Generic helpers *)

Abs(n) == IF n < 0 THEN -n ELSE n

\* the concatenation of ss[lo], ..., ss[hi] (halving keeps the evaluation
\* shallow on long sequences)
RECURSIVE FlattenRange(_, _, _)
FlattenRange(ss, lo, hi) ==
    IF lo > hi THEN <<>>
    ELSE IF lo = hi THEN ss[lo]
    ELSE LET mid == (lo + hi) \div 2
         IN  FlattenRange(ss, lo, mid) \o FlattenRange(ss, mid + 1, hi)

\* the concatenation of a sequence of sequences
Flatten(ss) == FlattenRange(ss, 1, Len(ss))

RECURSIVE SumLen(_)
SumLen(ss) == IF ss = <<>> THEN 0 ELSE Len(Head(ss)) + SumLen(Tail(ss))

Range(s) == {s[i] : i \in DOMAIN s}

\* all <<i, j>> with 1 <= i < j <= n, i ascending, then j ascending
IndexPairs(n) == Flatten([i \in 1..n |-> [d \in 1..(n - i) |-> <<i, i + d>>]])

RECURSIVE Perms(_)
Perms(S) ==
    IF S = {} THEN {<<>>}
    ELSE UNION {{<<e>> \o p : p \in Perms(S \ {e})} : e \in S}

----------------------------------------------------------------------------
(* Records *)

Student(i, e) == [id |-> i, exam |-> e]

Room(i, r, c, sr, sc) ==
    [id |-> i, rows |-> r, cols |-> c, skip_rows |-> sr, skip_cols |-> sc]

Assignment(sid, rid, r, c) ==
    [student_id |-> sid, room_id |-> rid, row |-> r, col |-> c]

\* std::to_string(id) + "_" + std::to_string(ki) + "_" + row + "_" + col:
\* injective in its four integers, so the key is the tuple itself
VarKey(sid, ki, pos) == <<sid, ki, pos[1], pos[2]>>

----------------------------------------------------------------------------
(* precompute_positions and is_adjacent *)

\* the (r, c) pairs visited by the two nested for loops, in visiting order
GridCells(room) ==
    [n \in 1..(room.rows * room.cols) |->
        <<(n - 1) \div room.cols, (n - 1) % room.cols>>]

\* variant: the skip_cols test is missing
KeepPosition_RowsOnly(room, pos) == ~(room.skip_rows /\ pos[1] % 2 # 0)

\* neither `continue` is taken for this cell
KeepPosition(room, pos) ==
    /\ ~(room.skip_rows /\ pos[1] % 2 # 0)
    /\ ~(room.skip_cols /\ pos[2] % 2 # 0)

precompute_positions(rs) ==
    [k \in 1..Len(rs) |->
        SelectSeq(GridCells(rs[k]), LAMBDA p : KeepPosition(rs[k], p))]

is_adjacent(pos1, pos2) ==
    Abs(pos1[1] - pos2[1]) + Abs(pos1[2] - pos2[2]) = 1

----------------------------------------------------------------------------
(* Inputs *)

\* the student lists of the given lengths, ids 0, 1, ... in input order
StudentListsOf(lengths) ==
    UNION {{[i \in 1..n |-> Student(i - 1, f[i])] : f \in [1..n -> Exams]} :
             n \in lengths}

StudentLists == StudentListsOf(0..MaxStudents)

RoomShapes ==
    {<<r, c, sr, sc>> : r \in 1..MaxRows, c \in 1..MaxCols,
                        sr \in BOOLEAN, sc \in BOOLEAN}

RoomLists ==
    UNION {{[k \in 1..n |-> Room(RoomIdOf(k), f[k][1], f[k][2], f[k][3], f[k][4])] :
             f \in [1..n -> RoomShapes]} : n \in 0..MaxRooms}

\* exam -> allowed room ids; an id need not name a room of the input
RestrictionMaps ==
    UNION {[D -> SUBSET AllRoomIds] : D \in SUBSET RestrictedExams}

\* the locals of solve on entry
InitLocals ==
    /\ pc = "start"
    /\ room_positions = <<>>
    /\ total_capacity = 0
    /\ exam_to_students = <<>>
    /\ exam_order = <<>>
    /\ x = {}
    /\ y = {}
    /\ variable_count = 0
    /\ constraints = {}
    /\ sep = <<>>
    /\ separation_count = 0
    /\ solver_called = FALSE
    /\ status = "NONE"
    /\ solution = [x |-> {}, y |-> {}]
    /\ assignments = <<>>
    /\ log = <<>>

InitWith(cap) ==
    /\ students \in StudentLists
    /\ rooms \in RoomLists
    /\ restrictions \in RestrictionMaps
    /\ max_sep = cap
    /\ InitLocals

Init == InitWith(MAX_SEPARATION_CONSTRAINTS)

InitCap == InitWith(ScaledCap)

----------------------------------------------------------------------------
(* solve: precompute, capacity check, exam groupings *)

LogLine(text, n) == [text |-> text, n |-> n]

\* room_positions = precompute_positions(rooms); total_capacity += size()
Precompute ==
    /\ pc = "start"
    /\ room_positions' = precompute_positions(rooms)
    /\ total_capacity' = SumLen(room_positions')
    /\ log' = log \o <<LogLine("Starting C++ solver", Len(students)),
                       LogLine("Total capacity", total_capacity')>>
    /\ pc' = "check"
    /\ UNCHANGED <<students, rooms, restrictions, max_sep, exam_to_students,
                   exam_order, x, y, variable_count, constraints, sep,
                   separation_count, solver_called, status, solution,
                   assignments>>

\* variant: <= in place of <
InsufficientCapacity_OrEqual(capacity, n) == capacity <= n

\* total_capacity < static_cast<int>(students.size())
InsufficientCapacity(capacity, n) == capacity < n

\* if (insufficient) { cout << "ERROR..."; return {}; }
CapacityCheck ==
    /\ pc = "check"
    /\ IF InsufficientCapacity(total_capacity, Len(students))
       THEN /\ log' = Append(log, LogLine("ERROR: Not enough capacity!", 0))
            /\ assignments' = <<>>
            /\ pc' = "done"
       ELSE /\ pc' = "groups"
            /\ UNCHANGED <<log, assignments>>
    /\ UNCHANGED <<students, rooms, restrictions, max_sep, room_positions,
                   total_capacity, exam_to_students, exam_order, x, y,
                   variable_count, constraints, sep, separation_count,
                   solver_called, status, solution>>

\* exam_to_students[student.exam].push_back(student.id)
ExamGroups(studs) ==
    [e \in {studs[i].exam : i \in DOMAIN studs} |->
        LET same == SelectSeq(studs, LAMBDA s : s.exam = e)
        IN  [i \in 1..Len(same) |-> same[i].id]]

\* Exam groupings and the room usage variables.  The order in which a
\* range-for visits an unordered_map is not fixed by the language: any order
\* of the keys is a possible outcome.
BuildGroups ==
    /\ pc = "groups"
    /\ exam_to_students' = ExamGroups(students)
    /\ exam_order' \in Perms(DOMAIN exam_to_students')
    /\ y' = 0..(Len(rooms) - 1)
    /\ pc' = "vars"
    /\ UNCHANGED <<students, rooms, restrictions, max_sep, room_positions,
                   total_capacity, x, variable_count, constraints, sep,
                   separation_count, solver_called, status, solution,
                   assignments, log>>

----------------------------------------------------------------------------
(* solve: decision variables *)

RoomIndices == 0..(Len(rooms) - 1)

Positions(ki) == room_positions[ki + 1]

\* variant: the restriction check is missing
AllowedRoom_Unchecked(exam, ki) == TRUE

\* the `continue` of the restriction check is not taken for room ki
AllowedRoom(exam, ki) ==
    \/ exam \notin DOMAIN restrictions
    \/ rooms[ki + 1].id \in restrictions[exam]

\* one entry per execution of `x[var_key] = cp_model.NewBoolVar()`
VariableSlots ==
    UNION {{<<i, ki, p>> : p \in 1..Len(Positions(ki))} :
             <<i, ki>> \in {q \in (DOMAIN students) \X RoomIndices :
                             AllowedRoom(students[q[1]].exam, q[2])}}

CreateVariables ==
    /\ pc = "vars"
    /\ x' = {VarKey(students[t[1]].id, t[2], Positions(t[2])[t[3]]) : t \in VariableSlots}
    /\ variable_count' = Cardinality(VariableSlots)
    /\ log' = Append(log, LogLine("Created variables", variable_count'))
    /\ pc' = "assignment"
    /\ UNCHANGED <<students, rooms, restrictions, max_sep, room_positions,
                   total_capacity, exam_to_students, exam_order, y,
                   constraints, sep, separation_count, solver_called, status,
                   solution, assignments>>

----------------------------------------------------------------------------
(* solve: assignment, capacity and linkage constraints *)

\* every (ki, pos) visited by `for ki ... for pos : room_positions[ki]`
Seats ==
    UNION {{<<ki, Positions(ki)[p]>> : p \in 1..Len(Positions(ki))} : ki \in RoomIndices}

\* kind "eq":   sum of vars = 1        (AddEquality(Sum(student_vars), 1))
\* kind "le":   sum of vars <= 1       (AddLessOrEqual(Sum(seat_vars), 1))
\* kind "link": the variable <= y[room] (AddLessOrEqual(x[var_key], y[ki]))
Constraint(kind, vs, room) == [kind |-> kind, vars |-> vs, room |-> room]

\* student_vars of one student: the keys found in x
StudentVars(sid) == {VarKey(sid, s[1], s[2]) : s \in Seats} \cap x

\* if (!student_vars.empty()) AddEquality(...)
AssignmentConstraints ==
    {Constraint("eq", StudentVars(students[i].id), -1) :
        i \in {j \in DOMAIN students : StudentVars(students[j].id) # {}}}

AddAssignment ==
    /\ pc = "assignment"
    /\ constraints' = constraints \cup AssignmentConstraints
    /\ pc' = "capacity"
    /\ UNCHANGED <<students, rooms, restrictions, max_sep, room_positions,
                   total_capacity, exam_to_students, exam_order, x, y,
                   variable_count, sep, separation_count, solver_called,
                   status, solution, assignments, log>>

\* seat_vars of one seat: the keys found in x
SeatVars(ki, pos) ==
    {VarKey(students[i].id, ki, pos) : i \in DOMAIN students} \cap x

\* variant: the per-seat sum constraint is missing
CapacityConstraints_Omitted == {}

\* if (!seat_vars.empty()) AddLessOrEqual(Sum(seat_vars), 1)
CapacityConstraints ==
    {Constraint("le", SeatVars(s[1], s[2]), -1) :
        s \in {t \in Seats : SeatVars(t[1], t[2]) # {}}}

\* variant: the linkage to y is missing
LinkConstraints_Omitted == {}

\* AddLessOrEqual(x[var_key], y[ki]) for every key found
LinkConstraints ==
    UNION {{Constraint("link", {v}, s[1]) : v \in SeatVars(s[1], s[2])} : s \in Seats}

AddCapacity ==
    /\ pc = "capacity"
    /\ constraints' = constraints \cup CapacityConstraints \cup LinkConstraints
    /\ pc' = "separation"
    /\ UNCHANGED <<students, rooms, restrictions, max_sep, room_positions,
                   total_capacity, exam_to_students, exam_order, x, y,
                   variable_count, sep, separation_count, solver_called,
                   status, solution, assignments, log>>

----------------------------------------------------------------------------
(* solve: separation constraints *)

SepConstraint(var1, var2) == [v1 |-> var1, v2 |-> var2]

\* var1 and var2 of the innermost loop body: studs[si] at positions[i],
\* studs[sj] at positions[j]
SeparationPair(studs, ki, i, j, si, sj) ==
    SepConstraint(VarKey(studs[si], ki, Positions(ki)[i]),
                  VarKey(studs[sj], ki, Positions(ki)[j]))

\* the constraints the i/j/si/sj loops would add for one exam and one room
\* with no ceiling, in loop order
RoomCandidates(studs, ki) ==
    LET pp == IndexPairs(Len(Positions(ki)))
        sp == IndexPairs(Len(studs))
    IN  Flatten([a \in 1..Len(pp) |->
            IF ~is_adjacent(Positions(ki)[pp[a][1]], Positions(ki)[pp[a][2]])
            THEN <<>>
            ELSE SelectSeq(
                    [b \in 1..Len(sp) |->
                        SeparationPair(studs, ki, pp[a][1], pp[a][2], sp[b][1], sp[b][2])],
                    LAMBDA c : c.v1 \in x /\ c.v2 \in x)])

\* the same for one exam group: `if (size() < 2) continue;` then every room
ExamCandidates(studs) ==
    IF Len(studs) < 2 THEN <<>>
    ELSE Flatten([k \in 1..Len(rooms) |-> RoomCandidates(studs, k - 1)])

\* the same for the whole loop nest, the exams in iteration order
SepCandidates ==
    Flatten([n \in 1..Len(exam_order) |-> ExamCandidates(exam_to_students[exam_order[n]])])

\* variant: <= in place of <
BelowCeiling_Inclusive(count, ceiling) == count <= ceiling

\* `separation_count < MAX_SEPARATION_CONSTRAINTS`, the condition of the
\* i, j, si and sj loops
BelowCeiling(count, ceiling) == count < ceiling

\* One execution of the innermost body that adds a constraint.  With the
\* loop conditions above, the loop nest adds the candidates in order for as
\* long as the count is below the ceiling, and none after.
EmitSeparation ==
    /\ pc = "separation"
    /\ BelowCeiling(separation_count, max_sep)
    /\ separation_count < Len(SepCandidates)
    /\ sep' = Append(sep, SepCandidates[separation_count + 1])
    /\ separation_count' = separation_count + 1
    /\ UNCHANGED <<students, rooms, restrictions, max_sep, pc, room_positions,
                   total_capacity, exam_to_students, exam_order, x, y,
                   variable_count, constraints, solver_called, status,
                   solution, assignments, log>>

\* the loop nest is left; "Added n separation constraints"; Minimize(Sum(y))
EndSeparation ==
    /\ pc = "separation"
    /\ ~(BelowCeiling(separation_count, max_sep) /\ separation_count < Len(SepCandidates))
    /\ log' = Append(log, LogLine("Added separation constraints", separation_count))
    /\ pc' = "solve"
    /\ UNCHANGED <<students, rooms, restrictions, max_sep, room_positions,
                   total_capacity, exam_to_students, exam_order, x, y,
                   variable_count, constraints, sep, separation_count,
                   solver_called, status, solution, assignments>>

----------------------------------------------------------------------------
(* The CP-SAT solver, by its contract: a response with status OPTIMAL or   *)
(* FEASIBLE carries a truth assignment that satisfies every constraint of  *)
(* the model; OPTIMAL also minimises the objective.                        *)

\* truth assignment: T the true x variables, Y the true y variables
Satisfies(T, Y) ==
    /\ \A c \in constraints :
          CASE c.kind = "eq"   -> Cardinality(c.vars \cap T) = 1
            [] c.kind = "le"   -> Cardinality(c.vars \cap T) <= 1
            [] c.kind = "link" -> (c.vars \subseteq T => c.room \in Y)
    /\ \A n \in DOMAIN sep : ~(sep[n].v1 \in T /\ sep[n].v2 \in T)

\* the x variables of one student id
Block(sid) == {v \in x : v[1] = sid}

\* the truth assignments to one student's variables that satisfy the
\* equalities over that student's variables alone
LocalChoices(sid) ==
    {V \in SUBSET Block(sid) :
        \A c \in constraints :
            (c.kind = "eq" /\ c.vars \subseteq Block(sid)) =>
                Cardinality(c.vars \cap V) = 1}

RECURSIVE Combine(_)
Combine(ids) ==
    IF ids = {} THEN {{}}
    ELSE LET sid == CHOOSE i \in ids : TRUE
         IN  {V \cup W : V \in LocalChoices(sid), W \in Combine(ids \ {sid})}

\* every truth assignment that satisfies the emitted model
FeasibleSolutions ==
    UNION {{[x |-> T, y |-> Y] : Y \in {Z \in SUBSET y : Satisfies(T, Z)}} :
             T \in Combine({v[1] : v \in x})}

\* cp_model.Minimize(LinearExpr::Sum(y))
Objective(sol) == Cardinality(sol.y)

\* the least objective value over a non-empty set of solutions
MinObjective(sols) ==
    CHOOSE m \in {Objective(sol) : sol \in sols} :
        \A other \in sols : m <= Objective(other)

NoSolution == [x |-> {}, y |-> {}]

----------------------------------------------------------------------------
(* solve: extraction *)

\* the innermost loop for one student and one room: the first position whose
\* key exists and is true is emitted, then `break` leaves this loop only
FirstTrue(sid, ki, T) ==
    LET hits == SelectSeq(Positions(ki),
                          LAMBDA p : VarKey(sid, ki, p) \in x /\ VarKey(sid, ki, p) \in T)
    IN  IF hits = <<>> THEN <<>>
        ELSE <<Assignment(sid, rooms[ki + 1].id, Head(hits)[1], Head(hits)[2])>>

ExtractAssignments(T) ==
    Flatten([i \in 1..Len(students) |->
        Flatten([k \in 1..Len(rooms) |-> FirstTrue(students[i].id, k - 1, T)])])

\* status OPTIMAL or FEASIBLE
HasSolution(st) == st = "OPTIMAL" \/ st = "FEASIBLE"

\* what solve returns for a response
Extracted(st, sol) == IF HasSolution(st) THEN ExtractAssignments(sol.x) ELSE <<>>

\* Solver call and extraction: the response is a local of solve that only
\* the extraction reads, so the two are one step.
SolveAndExtract ==
    /\ pc = "solve"
    /\ solver_called' = TRUE
    /\ \E sols \in {FeasibleSolutions} :
          \/ /\ status' \in {"UNKNOWN", "MODEL_INVALID"}
             /\ solution' = NoSolution
          \/ /\ sols = {}
             /\ status' = "INFEASIBLE"
             /\ solution' = NoSolution
          \/ \E sol \in sols :
                /\ status' = "FEASIBLE"
                /\ solution' = sol
          \/ /\ sols # {}
             /\ \E best \in {MinObjective(sols)} :
                   \E sol \in {s \in sols : Objective(s) = best} :
                      /\ status' = "OPTIMAL"
                      /\ solution' = sol
    /\ assignments' = Extracted(status', solution')
    /\ log' = log \o <<LogLine("Status: " \o status', 0)>>
                  \o (IF HasSolution(status')
                      THEN <<LogLine("C++ solver assigned", Len(assignments'))>>
                      ELSE <<>>)
    /\ pc' = "done"
    /\ UNCHANGED <<students, rooms, restrictions, max_sep, room_positions,
                   total_capacity, exam_to_students, exam_order, x, y,
                   variable_count, constraints, sep, separation_count>>

----------------------------------------------------------------------------

Next ==
    \/ Precompute
    \/ CapacityCheck
    \/ BuildGroups
    \/ CreateVariables
    \/ AddAssignment
    \/ AddCapacity
    \/ EmitSeparation
    \/ EndSeparation
    \/ SolveAndExtract

\* the ceiling as the source sets it
Spec == Init /\ [][Next]_vars

\* the ceiling scaled down so that the explored inputs reach it
SpecCap == InitCap /\ [][Next]_vars

----------------------------------------------------------------------------
(* The model-building part of solve on longer student lists: everything up *)
(* to the solver call, with the scaled ceiling.                            *)

InitBuild ==
    /\ students \in StudentListsOf(0..BuildStudents)
    /\ rooms \in RoomLists
    /\ restrictions \in RestrictionMaps
    /\ max_sep = ScaledCap
    /\ InitLocals

NextBuild ==
    \/ Precompute
    \/ CapacityCheck
    \/ BuildGroups
    \/ CreateVariables
    \/ AddAssignment
    \/ AddCapacity
    \/ EmitSeparation
    \/ EndSeparation

SpecBuild == InitBuild /\ [][NextBuild]_vars

----------------------------------------------------------------------------
(* The model-building part of solve on one room of up to GridMax rows and  *)
(* columns, two students of one exam, no restrictions, the ceiling as the  *)
(* source sets it.                                                         *)

GridRooms ==
    {<<Room(RoomIdOf(1), r, c, sr, sc)>> :
        r \in 1..GridMax, c \in 1..GridMax, sr \in BOOLEAN, sc \in BOOLEAN}

InitGrid ==
    /\ students = <<Student(0, "a"), Student(1, "a")>>
    /\ rooms \in GridRooms
    /\ restrictions = <<>>
    /\ max_sep = MAX_SEPARATION_CONSTRAINTS
    /\ InitLocals

SpecGrid == InitGrid /\ [][NextBuild]_vars

----------------------------------------------------------------------------
(* Vocabulary of the properties *)

Done == pc = "done"

\* solve returned early from the capacity check
Rejected == \E n \in DOMAIN log : log[n].text = "ERROR: Not enough capacity!"

ExamOf(sid) == students[CHOOSE i \in DOMAIN students : students[i].id = sid].exam

RoomOf(rid) == rooms[CHOOSE k \in DOMAIN rooms : rooms[k].id = rid]

RoomIndexOf(rid) == (CHOOSE k \in DOMAIN rooms : rooms[k].id = rid) - 1

UniqueIds ==
    /\ \A i, j \in DOMAIN students : students[i].id = students[j].id => i = j
    /\ \A i, j \in DOMAIN rooms : rooms[i].id = rooms[j].id => i = j

\* the usable positions of a room, as the data model defines them
UsablePositions(room) ==
    {pos \in (0..(room.rows - 1)) \X (0..(room.cols - 1)) :
        /\ (~room.skip_rows \/ pos[1] % 2 = 0)
        /\ (~room.skip_cols \/ pos[2] % 2 = 0)}

RECURSIVE UsableTotal(_)
UsableTotal(rs) ==
    IF rs = <<>> THEN 0
    ELSE Cardinality(UsablePositions(Head(rs))) + UsableTotal(Tail(rs))

Manhattan(a, b) == Abs(a.row - b.row) + Abs(a.col - b.col)

RoomsUsed(as) == {as[i].room_id : i \in DOMAIN as}

----------------------------------------------------------------------------
(* C1  Separation *)

\* C1: in every returned assignment list, if the separation ceiling was not
\* reached, no two students of the same exam sit in the same room at
\* Manhattan distance exactly 1, whichever of them has the earlier seat.
C1_NoAdjacentSameExam ==
    (Done /\ separation_count < max_sep) =>
        \A i, j \in DOMAIN assignments :
            (/\ i # j
             /\ ExamOf(assignments[i].student_id) = ExamOf(assignments[j].student_id)
             /\ assignments[i].room_id = assignments[j].room_id)
            => Manhattan(assignments[i], assignments[j]) # 1

----------------------------------------------------------------------------
(* C2  One assignment per student *)

\* C2: a non-empty returned list holds exactly one Assignment for every
\* student of the input, restricted exams included.
C2_OneAssignmentPerStudent ==
    (Done /\ assignments # <<>>) =>
        \A s \in DOMAIN students :
            Cardinality({i \in DOMAIN assignments :
                            assignments[i].student_id = students[s].id}) = 1

----------------------------------------------------------------------------
(* C3  Each seat holds at most one student *)

\* C3: for inputs with unique student ids and unique room ids, no two
\* returned Assignments have the same (room_id, row, col).
C3_SeatsDistinct ==
    UniqueIds =>
        \A i, j \in DOMAIN assignments :
            i # j =>
                <<assignments[i].room_id, assignments[i].row, assignments[i].col>>
                # <<assignments[j].room_id, assignments[j].row, assignments[j].col>>

\* two students of different exams were both seated in the only room
C3_Witness ==
    /\ Done
    /\ Len(assignments) = 2
    /\ assignments[1].room_id = assignments[2].room_id
    /\ ExamOf(assignments[1].student_id) # ExamOf(assignments[2].student_id)
    /\ Len(rooms) = 1

----------------------------------------------------------------------------
(* C4  Restrictions *)

\* C4: every returned Assignment of a student whose exam is a key of
\* restrictions is in a room listed for that exam; a student whose exam is
\* no key has, once the variables are created, one for every seat of every
\* room.
C4_RestrictionsRespected ==
    /\ \A i \in DOMAIN assignments :
          LET e == ExamOf(assignments[i].student_id)
          IN  e \in DOMAIN restrictions => assignments[i].room_id \in restrictions[e]
    /\ (pc \in {"assignment", "capacity", "separation", "solve", "done"} /\ ~Rejected) =>
          \A i \in DOMAIN students :
              students[i].exam \notin DOMAIN restrictions =>
                  \A seat \in Seats : VarKey(students[i].id, seat[1], seat[2]) \in x

\* a restricted student sits in its only listed room while the other room
\* has seats too, and an unrestricted student sits in that other room
C4_Witness ==
    /\ Done
    /\ Len(rooms) = 2
    /\ Len(assignments) = 2
    /\ \E i, j \in DOMAIN assignments :
          /\ ExamOf(assignments[i].student_id) \in DOMAIN restrictions
          /\ restrictions[ExamOf(assignments[i].student_id)] = {assignments[i].room_id}
          /\ ExamOf(assignments[j].student_id) \notin DOMAIN restrictions
          /\ assignments[j].room_id # assignments[i].room_id

----------------------------------------------------------------------------
(* C5  Usable positions *)

\* C5: every returned Assignment is inside its room's grid and on a usable
\* position, and precompute_positions lists exactly the usable positions of
\* each room, each once.
C5_PositionsUsable ==
    /\ \A i \in DOMAIN assignments :
          LET a == assignments[i]
              room == RoomOf(a.room_id)
          IN  /\ 0 <= a.row /\ a.row < room.rows
              /\ 0 <= a.col /\ a.col < room.cols
              /\ (~room.skip_rows \/ a.row % 2 = 0)
              /\ (~room.skip_cols \/ a.col % 2 = 0)
    /\ pc # "start" =>
          /\ Len(room_positions) = Len(rooms)
          /\ \A k \in DOMAIN rooms :
                /\ Range(room_positions[k]) = UsablePositions(rooms[k])
                /\ Len(room_positions[k]) = Cardinality(UsablePositions(rooms[k]))

\* a student sits in a room of two rows and two columns that skips both
C5_Witness ==
    /\ Done
    /\ \E i \in DOMAIN assignments :
          LET room == RoomOf(assignments[i].room_id)
          IN  room.skip_rows /\ room.skip_cols /\ room.rows = 2 /\ room.cols = 2

----------------------------------------------------------------------------
(* C6  Capacity rejection *)

\* C6: with fewer usable positions than students solve returns an empty
\* list with no variable, no constraint and no solver call; otherwise the
\* capacity rejection does not fire.
C6_CapacityRejection ==
    /\ UsableTotal(rooms) < Len(students) =>
          /\ pc \in {"start", "check", "done"}
          /\ (Done => Rejected)
          /\ x = {} /\ y = {} /\ variable_count = 0
          /\ constraints = {} /\ sep = <<>>
          /\ ~solver_called
          /\ assignments = <<>>
    /\ UsableTotal(rooms) >= Len(students) => ~Rejected

\* two students, one usable seat: solve has returned from the capacity check
C6_Witness ==
    /\ Done
    /\ Rejected
    /\ Len(students) = 2
    /\ UsableTotal(rooms) = 1

----------------------------------------------------------------------------
(* C7  Restricted capacity *)

\* the usable positions of the rooms listed for an exam
RestrictedCapacity(e) ==
    UsableTotal(SelectSeq(rooms, LAMBDA r : r.id \in restrictions[e]))

StudentsOf(e) == {i \in DOMAIN students : students[i].exam = e}

RestrictedShortfall ==
    \E e \in DOMAIN restrictions : RestrictedCapacity(e) < Cardinality(StudentsOf(e))

\* C7: when a restricted exam has fewer usable positions in its listed rooms
\* than students, the input is rejected before the solver is called and the
\* returned list is empty.
C7_RestrictedShortfallRejected ==
    RestrictedShortfall => (~solver_called /\ (Done => assignments = <<>>))

----------------------------------------------------------------------------
(* C8  Room minimisation *)

\* T satisfies the emitted assignment, capacity and separation constraints
SeatingSatisfies(T) ==
    /\ \A c \in constraints :
          /\ c.kind = "eq" => Cardinality(c.vars \cap T) = 1
          /\ c.kind = "le" => Cardinality(c.vars \cap T) <= 1
    /\ \A n \in DOMAIN sep : ~(sep[n].v1 \in T /\ sep[n].v2 \in T)

\* the rooms in which a seating places somebody
RoomsOfSeating(T) == {v[2] : v \in T}

\* the fewest rooms used by any seating that satisfies those constraints
MinRoomsUsed ==
    LET seatings == {T \in Combine({v[1] : v \in x}) : SeatingSatisfies(T)}
        counts == {Cardinality(RoomsOfSeating(T)) : T \in seatings}
    IN  CHOOSE m \in counts : \A n \in counts : m <= n

\* C8: with status OPTIMAL the number of distinct rooms in the returned list
\* is the minimum over all seatings satisfying the emitted assignment,
\* capacity and separation constraints; in every returned solution each room
\* holding a student has y[k] = 1, so the sum of y bounds the rooms used.
C8_RoomsMinimal ==
    /\ (Done /\ status = "OPTIMAL") =>
          Cardinality(RoomsUsed(assignments)) = MinRoomsUsed
    /\ (Done /\ HasSolution(status)) =>
          /\ \A i \in DOMAIN assignments : RoomIndexOf(assignments[i].room_id) \in solution.y
          /\ Cardinality(RoomsUsed(assignments)) <= Cardinality(solution.y)

\* two students of different exams, two rooms of two rows and two columns
\* without skipping, status OPTIMAL: both sit in one room
C8_Witness ==
    /\ Done
    /\ status = "OPTIMAL"
    /\ Len(students) = 2
    /\ students[1].exam # students[2].exam
    /\ Len(rooms) = 2
    /\ \A k \in DOMAIN rooms :
          rooms[k].rows = 2 /\ rooms[k].cols = 2 /\ ~rooms[k].skip_rows /\ ~rooms[k].skip_cols
    /\ Len(assignments) = 2
    /\ Cardinality(RoomsUsed(assignments)) = 1
    /\ Cardinality(solution.y) = 1

----------------------------------------------------------------------------
(* C9  Assignments only with a solution *)

\* C9: for status INFEASIBLE, MODEL_INVALID or UNKNOWN solve returns an empty
\* list, and for OPTIMAL or FEASIBLE with a non-empty student list it returns
\* a non-empty list.
C9_AssignmentsIffSolution ==
    (Done /\ solver_called) =>
        /\ status \in {"INFEASIBLE", "MODEL_INVALID", "UNKNOWN"} => assignments = <<>>
        /\ (HasSolution(status) /\ students # <<>>) => assignments # <<>>

----------------------------------------------------------------------------
(* C10  Ceiling warning *)

\* a cap-hit flag is among what the run reports
CapHitReported == \E n \in DOMAIN log : log[n].text = "ConstraintCapHit"

\* C10: the run reports a cap-hit warning exactly when the number of emitted
\* separation constraints reached the ceiling, and still returns the solution.
C10_CapHitWarning ==
    (Done /\ HasSolution(status)) =>
        /\ CapHitReported <=> separation_count >= max_sep
        /\ assignments = ExtractAssignments(solution.x)

----------------------------------------------------------------------------
(* C11  The emitted model is a function of the input *)

Min(a, b) == IF a < b THEN a ELSE b

\* the separation constraints the loop nest adds when the exam groups are
\* visited in the given order
EmittedInOrder(order) ==
    LET all == Flatten([n \in 1..Len(order) |->
                           ExamCandidates(exam_to_students[order[n]])])
    IN  SubSeq(all, 1, Min(max_sep, Len(all)))

\* the decision variables the input calls for
VariablesOfInput ==
    UNION {{VarKey(students[t[1]].id, t[2] - 1, pos) : pos \in UsablePositions(rooms[t[2]])} :
             t \in {u \in (DOMAIN students) \X (DOMAIN rooms) :
                      students[u[1]].exam \in DOMAIN restrictions =>
                          rooms[u[2]].id \in restrictions[students[u[1]].exam]}}

\* C11: the emitted model depends on the input alone: the decision variables
\* are those the input calls for, and the emitted separation constraints are
\* the same whatever order the exam groups are visited in, also when the
\* ceiling truncates emission.
C11_ModelDeterministic ==
    pc = "solve" =>
        /\ x = VariablesOfInput
        /\ \A order \in Perms(DOMAIN exam_to_students) :
              Range(EmittedInOrder(order)) = Range(sep)

----------------------------------------------------------------------------
(* C12  The ceiling on separation constraints *)

\* the (exam, room, position pair, student pair) combinations of the loop
\* nest whose positions are adjacent and whose two variables both exist
EligibleCombinations ==
    UNION {
        {<<e, ki, pp, sp>> :
            pp \in {q \in (DOMAIN Positions(ki)) \X (DOMAIN Positions(ki)) :
                      /\ q[1] < q[2]
                      /\ Manhattan([row |-> Positions(ki)[q[1]][1], col |-> Positions(ki)[q[1]][2]],
                                   [row |-> Positions(ki)[q[2]][1], col |-> Positions(ki)[q[2]][2]]) = 1},
            sp \in {q \in (DOMAIN exam_to_students[e]) \X (DOMAIN exam_to_students[e]) :
                      q[1] < q[2]}}
        : e \in DOMAIN exam_to_students, ki \in RoomIndices}

EligibleCount ==
    Cardinality({t \in EligibleCombinations :
        /\ VarKey(exam_to_students[t[1]][t[4][1]], t[2], Positions(t[2])[t[3][1]]) \in x
        /\ VarKey(exam_to_students[t[1]][t[4][2]], t[2], Positions(t[2])[t[3][2]]) \in x})

\* C12: the count of emitted separation constraints never exceeds the
\* ceiling, which is shared by all exams and rooms (the count is the number
\* of constraints emitted, so none is emitted once it is reached), and when
\* the loop nest is left the count is the smaller of the ceiling and the
\* number of eligible combinations whose two variables both exist.
C12_CeilingRespected ==
    /\ separation_count <= max_sep
    /\ separation_count = Len(sep)
    /\ pc = "solve" => separation_count = Min(max_sep, EligibleCount)

\* the ceiling cut emission short with two rooms and two exams of at least
\* two students each
C12_Witness ==
    /\ pc = "solve"
    /\ separation_count = max_sep
    /\ EligibleCount > max_sep
    /\ Len(rooms) = 2
    /\ Cardinality(DOMAIN exam_to_students) = 2
    /\ \A e \in DOMAIN exam_to_students : Len(exam_to_students[e]) >= 2

----------------------------------------------------------------------------
(* C13  Skipping and adjacency *)

\* the position pairs of room k (1-based) are all at distance 2 or more, none
\* is adjacent, and no emitted separation constraint is about the room
RoomIsSpread(k) ==
    /\ \A p, q \in Range(room_positions[k]) :
          p # q => /\ Abs(p[1] - q[1]) + Abs(p[2] - q[2]) >= 2
                   /\ ~is_adjacent(p, q)
    /\ \A n \in DOMAIN sep : sep[n].v1[2] # k - 1

\* C13: in a room with skip_rows or skip_cols any two distinct usable
\* positions are at Manhattan distance at least 2, is_adjacent is false for
\* every pair and no separation constraint is emitted for the room.
C13_AnySkipSpreads ==
    pc # "start" =>
        \A k \in DOMAIN rooms :
            (rooms[k].skip_rows \/ rooms[k].skip_cols) => RoomIsSpread(k)

\* C13 as amended: the same for a room with both skip_rows and skip_cols.
C13_BothSkipsSpread ==
    pc # "start" =>
        \A k \in DOMAIN rooms :
            (rooms[k].skip_rows /\ rooms[k].skip_cols) => RoomIsSpread(k)

\* a room of at least three rows and columns that skips both has several
\* usable positions, both students have variables there, and the separation
\* loops have ended without a constraint
C13_Witness ==
    /\ pc = "solve"
    /\ rooms[1].skip_rows /\ rooms[1].skip_cols
    /\ rooms[1].rows >= 3 /\ rooms[1].cols >= 3
    /\ Len(room_positions[1]) >= 4
    /\ Cardinality(x) = 2 * Len(room_positions[1])
    /\ Len(exam_to_students["a"]) = 2
    /\ sep = <<>>

====
